---------------------------- MODULE Spec2Model ----------------------------
(***************************************************************************)
(* A model of schedule_planner.py: the date extraction pipeline            *)
(* (extract_dates_from_pdf: document adapter, regular-expression scan,     *)
(* date parsing) and the interactive glue of main (task entry, syllabus    *)
(* loop, combination, display, CSV export).                                *)
(*                                                                         *)
(* Text is a sequence of one-character strings.  A calendar date is a      *)
(* record [y, m, d].  A schedule row is a record with the five columns of  *)
(* the data frames.                                                        *)
(***************************************************************************)
EXTENDS Integers, Sequences, FiniteSets, TLC

VARIABLES
    pc,             \* position of the program
    today,          \* the system clock's date, read by the date parser
    task_df,        \* main: task_df, the rows get_user_tasks collected
    attempts,       \* main: how often the syllabus path was asked for
    syllabus_path,  \* main: syllabus_path
    handle,         \* extract_dates_from_pdf: doc ("none", "open", "closed")
    page_no,        \* extract_dates_from_pdf: the page the loop is at
    text,           \* extract_dates_from_pdf: text
    date_matches,   \* extract_dates_from_pdf: date_matches
    match_no,       \* extract_dates_from_pdf: the match the loop is at
    parsed_dates,   \* extract_dates_from_pdf: parsed_dates
    dates,          \* main: dates, what extract_dates_from_pdf returned
    retry,          \* main: retry, the answer to "Try another file?"
    syllabus_df,    \* main: syllabus_df
    full_schedule,  \* main: full_schedule
    shown,          \* the task lines display_schedule printed
    csv,            \* the export file
    out             \* the messages printed from step 2 on

vars == <<pc, today, retry, task_df, attempts, syllabus_path, handle, page_no, text,
          date_matches, match_no, parsed_dates, dates, syllabus_df,
          full_schedule, shown, csv, out>>

-----------------------------------------------------------------------------
(* Characters and character classes of the regular expression engine.      *)

UpperCase == <<"A","B","C","D","E","F","G","H","I","J","K","L","M",
               "N","O","P","Q","R","S","T","U","V","W","X","Y","Z">>
LowerCase == <<"a","b","c","d","e","f","g","h","i","j","k","l","m",
               "n","o","p","q","r","s","t","u","v","w","x","y","z">>
Digits == <<"0","1","2","3","4","5","6","7","8","9">>

Letters == {UpperCase[i] : i \in 1..26} \cup {LowerCase[i] : i \in 1..26}
DigitSet == {Digits[i] : i \in 1..10}

\* the lower-case letter of each upper-case letter, and the reverse
FoldCase == [c \in {UpperCase[i] : i \in 1..26} |->
                LowerCase[CHOOSE i \in 1..26 : UpperCase[i] = c]]
RaiseCase == [c \in {LowerCase[i] : i \in 1..26} |->
                UpperCase[CHOOSE i \in 1..26 : LowerCase[i] = c]]

\* re.IGNORECASE: a literal of the pattern is compared after case folding
Lower(c) == IF c \in DOMAIN FoldCase THEN FoldCase[c] ELSE c

\* \d
IsDigit(c) == c \in DigitSet

\* \s
IsSpace(c) == c \in {" ", "\n", "\t"}

\* \w, the class \b is defined by
IsWord(c) == c \in Letters \/ c \in DigitSet \/ c = "_"

\* the alternatives of the month group, in the order of the pattern
Months ==
    << [stem |-> <<"j", "a", "n">>, rest |-> <<"u", "a", "r", "y">>],
       [stem |-> <<"f", "e", "b">>, rest |-> <<"r", "u", "a", "r", "y">>],
       [stem |-> <<"m", "a", "r">>, rest |-> <<"c", "h">>],
       [stem |-> <<"a", "p", "r">>, rest |-> <<"i", "l">>],
       [stem |-> <<"m", "a", "y">>, rest |-> <<>>],
       [stem |-> <<"j", "u", "n">>, rest |-> <<"e">>],
       [stem |-> <<"j", "u", "l">>, rest |-> <<"y">>],
       [stem |-> <<"a", "u", "g">>, rest |-> <<"u", "s", "t">>],
       [stem |-> <<"s", "e", "p">>, rest |-> <<"t", "e", "m", "b", "e", "r">>],
       [stem |-> <<"o", "c", "t">>, rest |-> <<"o", "b", "e", "r">>],
       [stem |-> <<"n", "o", "v">>, rest |-> <<"e", "m", "b", "e", "r">>],
       [stem |-> <<"d", "e", "c">>, rest |-> <<"e", "m", "b", "e", "r">>] >>

-----------------------------------------------------------------------------
(* The scan: re.findall(pattern, text, re.IGNORECASE), as the backtracking *)
(* engine runs it.  Positions are 1-based; a match is reported by the      *)
(* position after its last character, and 0 stands for "no match".         *)

\* the literal lit (lower case) matches t at position p, ignoring case
LitAt(t, p, lit) ==
    /\ p + Len(lit) - 1 <= Len(t)
    /\ \A k \in 1..Len(lit) : Lower(t[p + k - 1]) = lit[k]

\* a scan without \b: the month may start inside a word
WordBoundaryIgnored(t, p) == TRUE

\* \b at position p: exactly one of the characters around p is a word character
WordBoundary(t, p) ==
    LET before == p > 1 /\ p - 1 <= Len(t) /\ IsWord(t[p - 1])
        after  == p >= 1 /\ p <= Len(t) /\ IsWord(t[p])
    IN  before # after

\* the length of the run of whitespace that starts at p
RECURSIVE SpaceRun(_, _)
SpaceRun(t, p) ==
    IF p <= Len(t) /\ IsSpace(t[p]) THEN 1 + SpaceRun(t, p + 1) ELSE 0

\* \d{4} at p
FourDigits(t, p) ==
    /\ p + 3 <= Len(t)
    /\ \A k \in 0..3 : IsDigit(t[p + k])

\* (?:,\s+\d{4})? at p: greedy, the group is taken when it matches, with the
\* longest run of whitespace first, and skipped otherwise
YearGroup(t, p) ==
    IF p <= Len(t) /\ t[p] = ","
    THEN LET runs == {n \in 1..SpaceRun(t, p + 1) : FourDigits(t, p + 1 + n)}
         IN  IF runs = {} THEN p
             ELSE p + 1 + (CHOOSE n \in runs : \A k \in runs : k <= n) + 4
    ELSE p

\* \d{1,2}(?:,\s+\d{4})? at p: two digits are tried before one; the group
\* that follows always matches (possibly empty), so the first try stands
DayAndYear(t, p) ==
    IF p <= Len(t) /\ IsDigit(t[p])
    THEN IF p + 1 <= Len(t) /\ IsDigit(t[p + 1])
         THEN YearGroup(t, p + 2)
         ELSE YearGroup(t, p + 1)
    ELSE 0

\* \s+\d{1,2}(?:,\s+\d{4})? at p: the longest run of whitespace the rest of
\* the pattern matches after
SpaceDayYear(t, p) ==
    LET runs == {n \in 1..SpaceRun(t, p) : DayAndYear(t, p + n) # 0}
    IN  IF runs = {} THEN 0
        ELSE DayAndYear(t, p + (CHOOSE n \in runs : \A k \in runs : k <= n))

\* \.?\s+\d{1,2}(?:,\s+\d{4})? at p: with the period first, then without
AfterMonth(t, p) ==
    LET withDot == IF p <= Len(t) /\ t[p] = "." THEN SpaceDayYear(t, p + 1) ELSE 0
    IN  IF withDot # 0 THEN withDot ELSE SpaceDayYear(t, p)

\* one alternative Stem(?:rest)? and what follows it: the optional rest is
\* tried first
MonthAlt(t, p, mon) ==
    IF ~LitAt(t, p, mon.stem) THEN 0
    ELSE LET q == p + Len(mon.stem)
             long == IF mon.rest # <<>> /\ LitAt(t, q, mon.rest)
                     THEN AfterMonth(t, q + Len(mon.rest)) ELSE 0
         IN  IF long # 0 THEN long ELSE AfterMonth(t, q)

\* the alternatives in order, from the k-th on
RECURSIVE MonthAlts(_, _, _)
MonthAlts(t, p, k) ==
    IF k > Len(Months) THEN 0
    ELSE LET e == MonthAlt(t, p, Months[k])
         IN  IF e # 0 THEN e ELSE MonthAlts(t, p, k + 1)

\* the whole pattern at position p
MatchAt(t, p) == IF WordBoundary(t, p) THEN MonthAlts(t, p, 1) ELSE 0

\* re.findall: the scan moves left to right; after a match it goes on at the
\* match's end, otherwise one character further
RECURSIVE FindAllFrom(_, _)
FindAllFrom(t, p) ==
    IF p > Len(t) THEN <<>>
    ELSE LET e == MatchAt(t, p)
         IN  IF e # 0
             THEN <<SubSeq(t, p, e - 1)>> \o FindAllFrom(t, e)
             ELSE FindAllFrom(t, p + 1)

FindAll(t) == FindAllFrom(t, 1)

-----------------------------------------------------------------------------
(* Calendar dates: datetime.date.                                          *)

IsLeap(y) == (y % 4 = 0) /\ ((y % 100 # 0) \/ (y % 400 = 0))

DaysInMonth(y, m) ==
    IF m = 2 THEN (IF IsLeap(y) THEN 29 ELSE 28)
    ELSE IF m \in {4, 6, 9, 11} THEN 30 ELSE 31

\* the check the date constructor makes; it raises ValueError otherwise
ValidDate(y, m, d) ==
    /\ y >= 1 /\ y <= 9999
    /\ m >= 1 /\ m <= 12
    /\ d >= 1 /\ d <= DaysInMonth(y, m)

Date(y, m, d) == [y |-> y, m |-> m, d |-> d]
NoDate == Date(0, 0, 0)

\* what a parse attempt ends with: a date, or an exception
Parsed(dt) == [ok |-> TRUE, date |-> dt]
ParseError == [ok |-> FALSE, date |-> NoDate]

-----------------------------------------------------------------------------
(* parser.parse(date_str) of dateutil, on the strings the scan produces:    *)
(* the lexer, the month and number tokens, the resolution of the numbers    *)
(* into year, month and day, and the replacement of the fields of the       *)
(* default date (today).                                                    *)

IsAlpha(c) == c \in Letters

\* the end of the run of characters of one class that starts at p
RECURSIVE AlphaEnd(_, _)
AlphaEnd(s, p) == IF p <= Len(s) /\ IsAlpha(s[p]) THEN AlphaEnd(s, p + 1) ELSE p
RECURSIVE DigitEnd(_, _)
DigitEnd(s, p) == IF p <= Len(s) /\ IsDigit(s[p]) THEN DigitEnd(s, p + 1) ELSE p

\* the lexer: runs of letters, runs of digits, and every other character
\* (a period, a comma, one whitespace character) a token of its own
RECURSIVE Lex(_, _)
Lex(s, p) ==
    IF p > Len(s) THEN <<>>
    ELSE LET e == IF IsAlpha(s[p]) THEN AlphaEnd(s, p)
                  ELSE IF IsDigit(s[p]) THEN DigitEnd(s, p)
                  ELSE p + 1
         IN  <<SubSeq(s, p, e - 1)>> \o Lex(s, e)

LowerSeq(s) == [i \in 1..Len(s) |-> Lower(s[i])]

\* parserinfo.month: the month a word names (1..12), 0 when it names none
MonthOf(tok) ==
    LET w == LowerSeq(tok)
        named == {k \in 1..Len(Months) :
                     \/ w = Months[k].stem
                     \/ w = Months[k].stem \o Months[k].rest
                     \/ k = 9 /\ w = <<"s", "e", "p", "t">>}
    IN  IF named = {} THEN 0 ELSE CHOOSE k \in named : TRUE

DigitValues == [c \in DigitSet |-> (CHOOSE i \in 1..10 : Digits[i] = c) - 1]
DigitValue(c) == DigitValues[c]

\* the value of a token of digits
RECURSIVE Number(_)
Number(tok) ==
    IF tok = <<>> THEN 0
    ELSE 10 * Number(SubSeq(tok, 1, Len(tok) - 1)) + DigitValue(tok[Len(tok)])

\* parserinfo.jump, the separators that are skipped
IsJump(tok) == Len(tok) = 1 /\ (IsSpace(tok[1]) \/ tok[1] \in {".", ",", ";", "-", "/", "'"})

\* the loop over the tokens: the entries of the ymd list, each with its label
\* ("M" a month name, "Y" a number above 100, "-" a number not yet placed);
\* bad becomes TRUE at a token that is neither
RECURSIVE Collect(_, _)
Collect(toks, k) ==
    IF k > Len(toks) THEN [ymd |-> <<>>, bad |-> FALSE]
    ELSE LET tok == toks[k]
             tail == Collect(toks, k + 1)
         IN  IF IsDigit(tok[1])
             THEN [ymd |-> <<[val |-> Number(tok),
                              label |-> IF Number(tok) > 100 THEN "Y" ELSE "-"]>>
                           \o tail.ymd,
                   bad |-> tail.bad]
             ELSE IF IsAlpha(tok[1])
             THEN (IF MonthOf(tok) # 0
                   THEN [ymd |-> <<[val |-> MonthOf(tok), label |-> "M"]>> \o tail.ymd,
                         bad |-> tail.bad]
                   ELSE [ymd |-> tail.ymd, bad |-> TRUE])
             ELSE [ymd |-> tail.ymd, bad |-> tail.bad \/ ~IsJump(tok)]

\* parserinfo.convertyear: a year below 100 written without its century is
\* put in the century of the current year, within 50 years of it
ConvertYear(year, century_specified, current) ==
    IF year < 100 /\ ~century_specified
    THEN LET y == year + (current \div 100) * 100
         IN  IF y >= current + 50 THEN y - 100
             ELSE IF y < current - 50 THEN y + 100
             ELSE y
    ELSE year

\* _ymd.resolve_ymd, for a list that starts with the month name: the fields
\* found (0 for a field that was not found)
ResolveYmd(ymd, current) ==
    IF Len(ymd) = 2
    THEN \* the month and one number: a number above 31 is the year
         IF ymd[2].val > 31
         THEN [y |-> ConvertYear(ymd[2].val, ymd[2].label = "Y", current),
               m |-> ymd[1].val, d |-> 0, has_d |-> FALSE]
         ELSE [y |-> 0, m |-> ymd[1].val, d |-> ymd[2].val, has_d |-> TRUE]
    ELSE IF ymd[3].label = "Y" \/ ymd[2].label = "Y"
    THEN \* the month and the year are labelled: the third is the day
         IF ymd[3].label = "Y"
         THEN [y |-> ymd[3].val, m |-> ymd[1].val, d |-> ymd[2].val, has_d |-> TRUE]
         ELSE [y |-> ymd[2].val, m |-> ymd[1].val, d |-> ymd[3].val, has_d |-> TRUE]
    ELSE IF ymd[2].val > 31
    THEN \* month, year, day
         [y |-> ConvertYear(ymd[2].val, FALSE, current),
          m |-> ymd[1].val, d |-> ymd[3].val, has_d |-> TRUE]
    ELSE \* month, day, year
         [y |-> ConvertYear(ymd[3].val, FALSE, current),
          m |-> ymd[1].val, d |-> ymd[2].val, has_d |-> TRUE]

\* _build_naive: the fields found replace those of the default (today at
\* midnight); a default day past the end of the month falls back to the
\* month's last day; an impossible date raises ValueError
BuildNaive(res, now) ==
    LET y == IF res.y = 0 THEN now.y ELSE res.y
        m == res.m
        d == IF res.has_d THEN res.d
             ELSE IF now.d > DaysInMonth(y, m) THEN DaysInMonth(y, m) ELSE now.d
    IN  IF ValidDate(y, m, d) THEN Parsed(Date(y, m, d)) ELSE ParseError

\* parser.parse(date_str).date(), with the exceptions it raises
ParseDate(date_str, now) ==
    LET c == Collect(Lex(date_str, 1), 1)
    IN  IF c.bad \/ Len(c.ymd) < 2 \/ Len(c.ymd) > 3 \/ c.ymd[1].label # "M"
        THEN ParseError
        ELSE BuildNaive(ResolveYmd(c.ymd, now.y), now)

-----------------------------------------------------------------------------
(* strftime, as main uses it.                                              *)

\* datetime's proleptic ordinal of a date (1 for 0001-01-01)
RECURSIVE DaysBeforeMonth(_, _)
DaysBeforeMonth(y, m) ==
    IF m <= 1 THEN 0 ELSE DaysBeforeMonth(y, m - 1) + DaysInMonth(y, m - 1)

ToOrdinal(dt) ==
    LET y1 == dt.y - 1
    IN  y1 * 365 + (y1 \div 4) - (y1 \div 100) + (y1 \div 400)
          + DaysBeforeMonth(dt.y, dt.m) + dt.d

\* ['Monday', ..., 'Sunday'] of display_schedule
days_order ==
    <<"Monday", "Tuesday", "Wednesday", "Thursday", "Friday", "Saturday", "Sunday">>

\* a weekday name that counts from Sunday
WeekdayNameFromSunday(dt) == days_order[(ToOrdinal(dt) % 7) + 1]

\* d.strftime('%A'): the name of date.weekday(), Monday being 0
WeekdayName(dt) == days_order[((ToOrdinal(dt) + 6) % 7) + 1]

\* the decimal digits of n, at least width of them
RECURSIVE Decimal(_, _)
Decimal(n, width) ==
    IF n < 10 /\ width <= 1 THEN <<Digits[n + 1]>>
    ELSE Decimal(n \div 10, width - 1) \o <<Digits[(n % 10) + 1]>>

Upper(c) == IF c \in DOMAIN RaiseCase THEN RaiseCase[c] ELSE c

\* %B: the full month name
MonthName(m) ==
    LET w == Months[m].stem \o Months[m].rest
    IN  <<Upper(w[1])>> \o SubSeq(w, 2, Len(w))

\* d.strftime('%B %d, %Y')
FormatDate(dt) ==
    MonthName(dt.m) \o <<" ">> \o Decimal(dt.d, 2) \o <<",", " ">> \o Decimal(dt.y, 1)

-----------------------------------------------------------------------------
(* The world the program runs in: the files, the clock, the user's inputs. *)

\* the dates the system clock may show
Clock == {Date(2026, 11, 1), Date(2024, 12, 31)}

\* the documents on disk: the text of each page
Files ==
    [ syllabus |->
        << <<"M","a","r","."," ","3",","," ","2","0","2","5"," ","x"," ","J","a","n"," ","1","5","\n">>,
           <<"F","e","b"," ","3","0"," ","m","a","r"," ","1","0",","," ","2","0","2","5"," ","M","A","R","C","H"," ","3",",","\n","2","0","2","5">> >>,
      nodates |-> << <<"N","o"," ","d","a","t","e","s",".","\n">> >>,
      feb30 |-> << <<"D","u","e"," ","F","e","b","r","u","a","r","y"," ","3","0">> >>,
      blank |-> << >> ]

\* the paths the user may type; "missing" names no file
Paths == {"syllabus", "nodates", "feb30", "blank", "missing"}

Exists(path) == path \in DOMAIN Files

\* str.capitalize() on the weekdays the user may type
Capitalize(s) ==
    CASE s = "monday" -> "Monday"
      [] s = "SUNDAY" -> "Sunday"
      [] s = "funday" -> "Funday"
      [] OTHER -> s

DayInputs == {"monday", "SUNDAY", "funday"}

\* the most rows get_user_tasks is given
MaxTasks == 2
\* the most often the user is asked for a syllabus path
MaxAttempts == 2

-----------------------------------------------------------------------------
(* The program.                                                            *)

Say(msg) == out' = Append(out, msg)

Init ==
    /\ pc = "tasks"
    /\ today \in Clock
    /\ task_df = <<>>
    /\ attempts = 0
    /\ syllabus_path = ""
    /\ handle = "none"
    /\ page_no = 0
    /\ text = <<>>
    /\ date_matches = <<>>
    /\ match_no = 0
    /\ parsed_dates = <<>>
    /\ dates = <<>>
    /\ retry = ""
    /\ syllabus_df = <<>>
    /\ full_schedule = <<>>
    /\ shown = <<>>
    /\ csv = [written |-> FALSE, name |-> "", rows |-> <<>>]
    /\ out = <<>>

\* get_user_tasks: one pass of the loop, a task name other than 'done' and
\* the four answers that follow it
EnterTask ==
    /\ pc = "tasks"
    /\ Len(task_df) < MaxTasks
    /\ \E day \in DayInputs :
          task_df' = Append(task_df,
                            [Task |-> "Study", Day |-> Capitalize(day),
                             Start |-> "09:00", End |-> "10:00",
                             Description |-> <<>>])
    /\ UNCHANGED <<retry, pc, today, attempts, syllabus_path, handle, page_no, text,
                   date_matches, match_no, parsed_dates, dates, syllabus_df,
                   full_schedule, shown, csv, out>>

\* get_user_tasks: 'done'; main goes on to ask about the syllabus
TasksDone ==
    /\ pc = "tasks"
    /\ pc' = "ask_syllabus"
    /\ UNCHANGED <<retry, today, task_df, attempts, syllabus_path, handle, page_no,
                   text, date_matches, match_no, parsed_dates, dates,
                   syllabus_df, full_schedule, shown, csv, out>>

\* main: "Do you want to process a syllabus PDF? (y/n)"
AskSyllabus ==
    /\ pc = "ask_syllabus"
    /\ \E process_syllabus \in {"y", "n"} :
          pc' = IF process_syllabus = "y" THEN "ask_path" ELSE "combine"
    /\ UNCHANGED <<retry, today, task_df, attempts, syllabus_path, handle, page_no,
                   text, date_matches, match_no, parsed_dates, dates,
                   syllabus_df, full_schedule, shown, csv, out>>

\* main: the path prompt and the existence check; a path that names no file
\* leads back to the prompt, any other into extract_dates_from_pdf
EnterPath ==
    /\ pc = "ask_path"
    /\ attempts < MaxAttempts
    /\ attempts' = attempts + 1
    /\ \E path \in Paths :
          /\ syllabus_path' = path
          /\ IF ~Exists(path)
             THEN /\ Say("File not found")
                  /\ pc' = "ask_path"
                  /\ UNCHANGED handle
             ELSE /\ Say("Processing")
                  /\ pc' = "open"
                  /\ handle' = "none"
    /\ UNCHANGED <<retry, today, task_df, page_no, text, date_matches, match_no,
                   parsed_dates, dates, syllabus_df, full_schedule, shown, csv>>

\* extract_dates_from_pdf: fitz.open, which returns the document or raises
FitzOpen ==
    /\ pc = "open"
    /\ \E opened \in BOOLEAN :
          IF opened
          THEN /\ handle' = "open"
               /\ text' = <<>>
               /\ page_no' = 1
               /\ pc' = "read"
          ELSE /\ pc' = "except"
               /\ UNCHANGED <<handle, text, page_no>>
    /\ UNCHANGED <<retry, today, task_df, attempts, syllabus_path, date_matches,
                   match_no, parsed_dates, dates, syllabus_df, full_schedule,
                   shown, csv, out>>

\* extract_dates_from_pdf: one pass of the page loop; page.get_text returns
\* the page's text or raises
GetText ==
    /\ pc = "read"
    /\ page_no <= Len(Files[syllabus_path])
    /\ \E read \in BOOLEAN :
          IF read
          THEN /\ text' = text \o Files[syllabus_path][page_no]
               /\ page_no' = page_no + 1
               /\ pc' = "read"
          ELSE /\ pc' = "except"
               /\ UNCHANGED <<text, page_no>>
    /\ UNCHANGED <<retry, today, task_df, attempts, syllabus_path, handle,
                   date_matches, match_no, parsed_dates, dates, syllabus_df,
                   full_schedule, shown, csv, out>>

\* extract_dates_from_pdf: doc.close(), after the last page
DocClose ==
    /\ pc = "read"
    /\ page_no > Len(Files[syllabus_path])
    /\ handle' = "closed"
    /\ pc' = "findall"
    /\ UNCHANGED <<retry, today, task_df, attempts, syllabus_path, page_no, text,
                   date_matches, match_no, parsed_dates, dates, syllabus_df,
                   full_schedule, shown, csv, out>>

\* extract_dates_from_pdf: re.findall, and parsed_dates = []
Scan ==
    /\ pc = "findall"
    /\ date_matches' = FindAll(text)
    /\ parsed_dates' = <<>>
    /\ match_no' = 1
    /\ pc' = "parse"
    /\ UNCHANGED <<retry, today, task_df, attempts, syllabus_path, handle, page_no,
                   text, dates, syllabus_df, full_schedule, shown, csv, out>>

\* a loop body that puts the new date first
ParseBodyPrepends(matches, k, parsed, now) ==
    LET r == ParseDate(matches[k], now)
    IN  IF r.ok THEN <<r.date>> \o parsed ELSE parsed

\* the body of the loop over date_matches: the date is appended, or the
\* exception of parser.parse is swallowed and the loop goes on
ParseBody(matches, k, parsed, now) ==
    LET r == ParseDate(matches[k], now)
    IN  IF r.ok THEN Append(parsed, r.date) ELSE parsed

\* extract_dates_from_pdf: one pass of the loop over date_matches
ParseStep ==
    /\ pc = "parse"
    /\ match_no <= Len(date_matches)
    /\ parsed_dates' = ParseBody(date_matches, match_no, parsed_dates, today)
    /\ match_no' = match_no + 1
    /\ UNCHANGED <<retry, pc, today, task_df, attempts, syllabus_path, handle,
                   page_no, text, date_matches, dates, syllabus_df,
                   full_schedule, shown, csv, out>>

\* extract_dates_from_pdf: return parsed_dates
ReturnDates ==
    /\ pc = "parse"
    /\ match_no > Len(date_matches)
    /\ dates' = parsed_dates
    /\ pc' = "returned"
    /\ UNCHANGED <<retry, today, task_df, attempts, syllabus_path, handle, page_no,
                   text, date_matches, match_no, parsed_dates, syllabus_df,
                   full_schedule, shown, csv, out>>

\* the dates of the mentions of a text
RECURSIVE DatesOf(_, _, _)
DatesOf(matches, k, now) ==
    IF k > Len(matches) THEN <<>>
    ELSE LET r == ParseDate(matches[k], now)
         IN  (IF r.ok THEN <<r.date>> ELSE <<>>) \o DatesOf(matches, k + 1, now)

\* a handler that returns the dates of the pages read before the failure
HandlerReturnsPartial(txt, now) ==
    [msg |-> "Error reading PDF", dates |-> DatesOf(FindAll(txt), 1, now),
     pc |-> "returned"]

\* a handler that reports the failure as main reports a document without dates
HandlerReportsNoDates(txt, now) ==
    [msg |-> "No dates found", dates |-> <<>>, pc |-> "returned"]

\* the handler of extract_dates_from_pdf, except Exception as e: the message
\* it prints, the value it returns and where the program is then (an
\* exception it did not catch would leave the program at "raised"); nothing
\* of the text read so far is used
HandlerOutcome(txt, now) ==
    [msg |-> "Error reading PDF", dates |-> <<>>, pc |-> "returned"]

\* extract_dates_from_pdf: an exception of fitz.open or page.get_text
\* reaches the handler; doc.close() is not on this path
ExceptHandler ==
    /\ pc = "except"
    /\ LET o == HandlerOutcome(text, today)
       IN  /\ Say(o.msg)
           /\ dates' = o.dates
           /\ pc' = o.pc
    /\ UNCHANGED <<retry, today, task_df, attempts, syllabus_path, handle,
                   page_no, text, date_matches, match_no, parsed_dates,
                   syllabus_df, full_schedule, shown, csv>>

\* the row main makes of a date
SyllabusRow(dt) ==
    [Task |-> "Syllabus Event", Day |-> WeekdayName(dt),
     Start |-> "N/A", End |-> "N/A", Description |-> FormatDate(dt)]

\* the data frame main makes of the dates
SyllabusFrame(ds) == [i \in 1..Len(ds) |-> SyllabusRow(ds[i])]

\* main: dates were found; the syllabus table is built and the loop is left
FoundDates ==
    /\ pc = "returned"
    /\ dates # <<>>
    /\ Say("Found dates")
    /\ syllabus_df' = SyllabusFrame(dates)
    /\ pc' = "combine"
    /\ UNCHANGED <<retry, today, task_df, attempts, syllabus_path, handle, page_no,
                   text, date_matches, match_no, parsed_dates, dates,
                   full_schedule, shown, csv>>

\* main: no dates; the retry question follows
NoDatesFound ==
    /\ pc = "returned"
    /\ dates = <<>>
    /\ Say("No dates found")
    /\ pc' = "ask_retry"
    /\ UNCHANGED <<retry, today, task_df, attempts, syllabus_path, handle, page_no,
                   text, date_matches, match_no, parsed_dates, dates,
                   syllabus_df, full_schedule, shown, csv>>

\* a retry question read the wrong way round
AfterRetryInverted(answer) == IF answer # "y" THEN "ask_path" ELSE "combine"

\* where main goes after the answer to "Try another file? (y/n)"
AfterRetry(answer) == IF answer # "y" THEN "combine" ELSE "ask_path"

\* main: "Try another file? (y/n)"
AskRetry ==
    /\ pc = "ask_retry"
    /\ \E answer \in {"y", "n", ""} :
          /\ retry' = answer
          /\ pc' = AfterRetry(answer)
    /\ UNCHANGED <<today, task_df, attempts, syllabus_path, handle, page_no,
                   text, date_matches, match_no, parsed_dates, dates,
                   syllabus_df, full_schedule, shown, csv, out>>

\* main, step 3: the two tables are concatenated, manual rows first
CombineFrames(tasks, syllabus) ==
    IF tasks # <<>> /\ syllabus # <<>> THEN tasks \o syllabus
    ELSE IF tasks # <<>> THEN tasks
    ELSE IF syllabus # <<>> THEN syllabus
    ELSE <<>>

Combine ==
    /\ pc = "combine"
    /\ full_schedule' = CombineFrames(task_df, syllabus_df)
    /\ pc' = "display"
    /\ UNCHANGED <<retry, today, task_df, attempts, syllabus_path, handle, page_no,
                   text, date_matches, match_no, parsed_dates, dates,
                   syllabus_df, shown, csv, out>>

\* schedule_df[schedule_df['Day'] == day]: the rows of one day, by position,
\* in the order of the frame
RECURSIVE RowsOfDay(_, _, _)
RowsOfDay(df, day, i) ==
    IF i > Len(df) THEN <<>>
    ELSE (IF df[i].Day = day THEN <<[day |-> day, idx |-> i, row |-> df[i]]>> ELSE <<>>)
           \o RowsOfDay(df, day, i + 1)

\* display_schedule: the loop over days_order, from the k-th day on
RECURSIVE DisplayFrom(_, _)
DisplayFrom(df, k) ==
    IF k > Len(days_order) THEN <<>>
    ELSE RowsOfDay(df, days_order[k], 1) \o DisplayFrom(df, k + 1)

\* a display that prints every row in the order of the frame
DisplayInFrameOrder(df) == [i \in 1..Len(df) |-> [day |-> df[i].Day, idx |-> i, row |-> df[i]]]

\* the task lines display_schedule prints
display_schedule(df) == DisplayFrom(df, 1)

\* main: a schedule that is not empty is displayed
DisplaySchedule ==
    /\ pc = "display"
    /\ full_schedule # <<>>
    /\ shown' = display_schedule(full_schedule)
    /\ Say("Full schedule")
    /\ pc' = "ask_save"
    /\ UNCHANGED <<retry, today, task_df, attempts, syllabus_path, handle, page_no,
                   text, date_matches, match_no, parsed_dates, dates,
                   syllabus_df, full_schedule, csv>>

\* main: an empty schedule
NothingToDisplay ==
    /\ pc = "display"
    /\ full_schedule = <<>>
    /\ Say("No schedule items")
    /\ pc' = "thanks"
    /\ UNCHANGED <<retry, today, task_df, attempts, syllabus_path, handle, page_no,
                   text, date_matches, match_no, parsed_dates, dates,
                   syllabus_df, full_schedule, shown, csv>>

\* the name main saves under: the default for an empty answer, and the
\* extension added when it is missing
CsvName(filename) ==
    CASE filename = "" -> "my_schedule.csv"
      [] filename = "plan" -> "plan.csv"
      [] OTHER -> filename

\* main: "Would you like to save this schedule to a CSV file? (y/n)" and,
\* after 'y', the file name
AskSave ==
    /\ pc = "ask_save"
    /\ \E save_option \in {"y", "n"}, filename \in {"", "plan", "plan.csv"} :
          IF save_option = "y"
          THEN /\ csv' = [csv EXCEPT !.name = CsvName(filename)]
               /\ pc' = "save"
          ELSE /\ pc' = "thanks"
               /\ UNCHANGED csv
    /\ UNCHANGED <<retry, today, task_df, attempts, syllabus_path, handle, page_no,
                   text, date_matches, match_no, parsed_dates, dates,
                   syllabus_df, full_schedule, shown, out>>

\* a save without the handler: the exception leaves the function
SaveFailureRaises == [msg |-> "Error saving schedule", pc |-> "raised"]

\* what save_schedule_to_csv leaves when to_csv raises: the message printed
\* and the position of the program
SaveFailure == [msg |-> "Error saving schedule", pc |-> "thanks"]

\* save_schedule_to_csv: to_csv writes the file or raises; either way a
\* message is printed and the function returns
save_schedule_to_csv ==
    /\ pc = "save"
    /\ \E wrote \in BOOLEAN :
          IF wrote
          THEN /\ csv' = [csv EXCEPT !.written = TRUE, !.rows = full_schedule]
               /\ Say("Schedule saved")
               /\ pc' = "thanks"
          ELSE /\ UNCHANGED csv
               /\ Say(SaveFailure.msg)
               /\ pc' = SaveFailure.pc
    /\ UNCHANGED <<retry, today, task_df, attempts, syllabus_path, handle, page_no,
                   text, date_matches, match_no, parsed_dates, dates,
                   syllabus_df, full_schedule, shown>>

\* main: the closing message
Thanks ==
    /\ pc = "thanks"
    /\ Say("Thanks")
    /\ pc' = "done"
    /\ UNCHANGED <<retry, today, task_df, attempts, syllabus_path, handle, page_no,
                   text, date_matches, match_no, parsed_dates, dates,
                   syllabus_df, full_schedule, shown, csv>>

Next ==
    \/ EnterTask
    \/ TasksDone
    \/ AskSyllabus
    \/ EnterPath
    \/ FitzOpen
    \/ GetText
    \/ DocClose
    \/ Scan
    \/ ParseStep
    \/ ReturnDates
    \/ ExceptHandler
    \/ FoundDates
    \/ NoDatesFound
    \/ AskRetry
    \/ Combine
    \/ DisplaySchedule
    \/ NothingToDisplay
    \/ AskSave
    \/ save_schedule_to_csv
    \/ Thanks

Spec == Init /\ [][Next]_vars

-----------------------------------------------------------------------------
(* The scan alone, on every text made of a few pieces.                     *)

\* the pieces texts are made of
Chunks ==
    { <<"j", "A", "n">>, <<"u", "a", "r", "y">>, <<"x">>, <<".">>, <<" ">>,
      <<"3">>, <<",">>, <<"2", "0", "2", "5">>, <<"M", "a", "y", "\n", "1", "5">> }

\* the most pieces in a text
MaxChunks == 4

RECURSIVE Concat(_)
Concat(ss) == IF ss = <<>> THEN <<>> ELSE ss[1] \o Concat(Tail(ss))

ScanTexts(most) == {Concat(cs) : cs \in UNION {[1..n -> Chunks] : n \in 0..most}}

InitScan ==
    /\ pc = "findall"
    /\ text \in ScanTexts(MaxChunks)
    /\ today = Date(2026, 11, 1)
    /\ task_df = <<>>
    /\ attempts = 0
    /\ syllabus_path = ""
    /\ handle = "closed"
    /\ page_no = 0
    /\ date_matches = <<>>
    /\ match_no = 0
    /\ parsed_dates = <<>>
    /\ dates = <<>>
    /\ retry = ""
    /\ syllabus_df = <<>>
    /\ full_schedule = <<>>
    /\ shown = <<>>
    /\ csv = [written |-> FALSE, name |-> "", rows |-> <<>>]
    /\ out = <<>>

NextScan == Scan

SpecScan == InitScan /\ [][NextScan]_vars

-----------------------------------------------------------------------------
(* The loop over the matches alone, on every short sequence of mentions.   *)

MentionMonths == { <<"F", "e", "b">>, <<"A", "P", "R", "I", "L", ".">> }
MentionDays == { <<"3">>, <<"0">>, <<"2", "9">>, <<"3", "0">>, <<"3", "1">>, <<"3", "2">> }
MentionYears == { <<>>, <<",", " ", "2", "0", "2", "4">>, <<",", " ", "0", "0", "5", "0">> }

Mentions(years) ==
    {mo \o <<" ">> \o dy \o yr :
        mo \in MentionMonths, dy \in MentionDays, yr \in years}

\* the most mentions in a sequence
MaxMentions == 2

InitNorm ==
    /\ pc = "parse"
    /\ date_matches \in UNION {[1..n -> Mentions(MentionYears)] : n \in 0..MaxMentions}
    /\ today \in Clock
    /\ match_no = 1
    /\ parsed_dates = <<>>
    /\ text = <<>>
    /\ task_df = <<>>
    /\ attempts = 0
    /\ syllabus_path = ""
    /\ handle = "closed"
    /\ page_no = 0
    /\ dates = <<>>
    /\ retry = ""
    /\ syllabus_df = <<>>
    /\ full_schedule = <<>>
    /\ shown = <<>>
    /\ csv = [written |-> FALSE, name |-> "", rows |-> <<>>]
    /\ out = <<>>

NextNorm == ParseStep \/ ReturnDates

SpecNorm == InitNorm /\ [][NextNorm]_vars

-----------------------------------------------------------------------------
(* C5: what the scan reports.                                              *)

\* w, lower case, is a full month name or its three-letter abbreviation
IsMonthToken(w) ==
    \E k \in 1..Len(Months) : w = Months[k].stem \/ w = Months[k].stem \o Months[k].rest

AllSpace(t, a, b) == \A k \in a..b : IsSpace(t[k])
AllDigits(t, a, b) == \A k \in a..b : IsDigit(t[k])

\* the positions a such that t[i..a-1] is a month token
MonthEnds(t, i) ==
    {a \in (i + 1)..(Len(t) + 1) : IsMonthToken(LowerSeq(SubSeq(t, i, a - 1)))}

\* the positions e such that t[a..e-1] is: an optional period, whitespace, one
\* or two digits and, optionally, a comma, whitespace (at least min_gap
\* characters of it) and four digits
TailEnds(t, a, min_gap) ==
    {e \in (a + 1)..(Len(t) + 1) :
        \E b \in {a, a + 1} :
            /\ b <= e
            /\ b = a + 1 => t[a] = "."
            /\ \E c \in (b + 1)..e :
                  /\ AllSpace(t, b, c - 1)
                  /\ \E d \in {c + 1, c + 2} :
                        /\ d <= e
                        /\ AllDigits(t, c, d - 1)
                        /\ \/ e = d
                           \/ /\ t[d] = ","
                              /\ e - 4 >= d + 1 + min_gap
                              /\ AllSpace(t, d + 1, e - 5)
                              /\ AllDigits(t, e - 4, e - 1)}

\* the positions e such that t[i..e-1] is a month token followed by such a tail
MentionEnds(t, i, min_gap) == UNION {TailEnds(t, a, min_gap) : a \in MonthEnds(t, i)}

Longest(ends) == CHOOSE e \in ends : \A f \in ends : f <= e

\* position i does not continue a word
WordStart(t, i) == i = 1 \/ ~IsWord(t[i - 1])

\* every mention that starts at a word start, from position i on, each at its
\* longest, in the order of their first characters
RECURSIVE MentionsFrom(_, _)
MentionsFrom(t, i) ==
    IF i > Len(t) THEN <<>>
    ELSE LET ends == MentionEnds(t, i, 1)
         IN  (IF WordStart(t, i) /\ ends # {}
              THEN <<SubSeq(t, i, Longest(ends) - 1)>> ELSE <<>>)
               \o MentionsFrom(t, i + 1)

\* the starts of the mentions, with the end of each
MentionSpans(t) ==
    {<<i, Longest(MentionEnds(t, i, 1))>> :
        i \in {j \in 1..Len(t) : WordStart(t, j) /\ MentionEnds(t, j, 1) # {}}}

\* C5 (amended): the scan reports, in the order of their first characters and
\* with duplicates, exactly the substrings that start at a word start and
\* consist of a month name or three-letter abbreviation (any case), an
\* optional period, whitespace, one or two digits and, optionally, a comma,
\* at least one whitespace character and four digits, each at its longest;
\* no two of them overlap, and a text with none yields the empty sequence.
C5_ScanReportsMentions ==
    pc = "parse" =>
        /\ date_matches = MentionsFrom(text, 1)
        /\ LET spans == MentionSpans(text)
           IN  /\ \A s1, s2 \in spans : s1[1] < s2[1] => s1[2] <= s2[1]
               /\ spans = {} => date_matches = <<>>

\* the leftmost-first, non-overlapping substrings of the form as the claim
\* words it: a month token anywhere, and a comma and four digits with or
\* without whitespace between them
RECURSIVE ClaimedMentionsFrom(_, _)
ClaimedMentionsFrom(t, i) ==
    IF i > Len(t) THEN <<>>
    ELSE LET ends == MentionEnds(t, i, 0)
         IN  IF ends # {}
             THEN <<SubSeq(t, i, Longest(ends) - 1)>>
                    \o ClaimedMentionsFrom(t, Longest(ends))
             ELSE ClaimedMentionsFrom(t, i + 1)

\* C5 as claimed: the scan reports exactly the leftmost-first, non-overlapping
\* substrings made of a month token, whitespace, one or two digits and,
\* optionally, a comma and four digits, wherever the month token starts.
C5_ScanAsClaimed ==
    pc = "parse" => date_matches = ClaimedMentionsFrom(text, 1)

\* a text with two mentions, the second a duplicate of the first
C5_Witness ==
    /\ pc = "parse"
    /\ Len(date_matches) = 2
    /\ date_matches[1] = date_matches[2]

-----------------------------------------------------------------------------
(* C1, C6: the loop over the matches.                                      *)

\* C1: when extract_dates_from_pdf returns from its loop, the list returned
\* holds exactly the dates of the mentions that parse, each at the rank its
\* mention has among those that parse: the failures are left out, the order
\* is kept, and the list is no longer than the list of mentions.
C1_DatesOfParsedMentionsInOrder ==
    (pc = "returned" /\ handle = "closed") =>
        LET good == {i \in 1..Len(date_matches) : ParseDate(date_matches[i], today).ok}
        IN  /\ Len(dates) = Cardinality(good)
            /\ Len(dates) <= Len(date_matches)
            /\ \A i \in good :
                  dates[Cardinality({j \in good : j <= i})]
                      = ParseDate(date_matches[i], today).date

\* two mentions that both parse, to different dates
C1_Witness ==
    /\ pc = "returned"
    /\ handle = "closed"
    /\ Len(date_matches) = 2
    /\ Len(dates) = 2
    /\ dates[1] # dates[2]

\* the month, the day and the year a mention is written with; the year is the
\* current one when the mention has none
WrittenMonth(mention) == MonthOf(SubSeq(mention, 1, AlphaEnd(mention, 1) - 1))

FirstDigit(mention) == CHOOSE p \in 1..Len(mention) :
                          IsDigit(mention[p]) /\ \A q \in 1..(p - 1) : ~IsDigit(mention[q])

WrittenDay(mention) ==
    LET p == FirstDigit(mention)
    IN  Number(SubSeq(mention, p, DigitEnd(mention, p) - 1))

WrittenYear(mention, current) ==
    IF \E p \in 1..Len(mention) : mention[p] = ","
    THEN Number(SubSeq(mention, Len(mention) - 3, Len(mention)))
    ELSE current

\* the dates of the mentions as they are written, without those that are no
\* date of the calendar
RECURSIVE DatesAsWritten(_, _)
DatesAsWritten(mentions, current) ==
    IF mentions = <<>> THEN <<>>
    ELSE LET y == WrittenYear(mentions[1], current)
             m == WrittenMonth(mentions[1])
             d == WrittenDay(mentions[1])
         IN  (IF ValidDate(y, m, d) THEN <<Date(y, m, d)>> ELSE <<>>)
               \o DatesAsWritten(Tail(mentions), current)

\* C6: the dates parsed so far are those of the mentions passed so far, each
\* with the month and the day it is written with and with its own year or,
\* without one, the current year; a mention that is no date of the calendar
\* gives none.
C6_DatesAsWritten ==
    (pc \in {"parse", "returned"} /\ handle = "closed") =>
        parsed_dates = DatesAsWritten(SubSeq(date_matches, 1, match_no - 1), today.y)

-----------------------------------------------------------------------------
(* C2, C3, C4: the failures of the document adapter.                       *)

\* extract_dates_from_pdf has returned through its handler: the document was
\* not opened, or a page could not be read
OpenFailed == pc = "returned" /\ handle = "none"
ReadFailed == pc = "returned" /\ handle = "open"

\* C2: after a failure of fitz.open or of page.get_text, also one after pages
\* that were read, extract_dates_from_pdf returns the empty list, and no
\* exception leaves it.
C2_AdapterFailureGivesNoDates ==
    /\ pc # "raised"
    /\ (OpenFailed \/ ReadFailed) => dates = <<>>

\* a page could not be read after a page with mentions was read
C2_Witness ==
    /\ ReadFailed
    /\ FindAll(text) # <<>>
    /\ dates = <<>>

\* C3: when extract_dates_from_pdf returns, a document that was opened has
\* been closed.
C3_HandleReleased == pc = "returned" => handle \in {"none", "closed"}

\* C4: when the document cannot be opened, the list returned is empty and the
\* last message is the error of the adapter, which is not printed for a
\* document that was opened and read, with or without matches; main's own
\* message and the retry question then follow in both cases.
C4_OpenFailureReported ==
    /\ OpenFailed => (dates = <<>> /\ out[Len(out)] = "Error reading PDF")
    /\ (pc = "returned" /\ handle = "closed") => out[Len(out)] = "Processing"
    /\ pc = "ask_retry" =>
          /\ out[Len(out)] = "No dates found"
          /\ handle = "none" => out[Len(out) - 1] = "Error reading PDF"
          /\ handle = "closed" => out[Len(out) - 1] = "Processing"

\* the retry question after a document that could not be opened
C4_Witness == pc = "ask_retry" /\ handle = "none"

-----------------------------------------------------------------------------
(* C7, C8: the tables.                                                     *)

DayIndex(day) == CHOOSE k \in 1..Len(days_order) : days_order[k] = day
IsWeekday(day) == \E k \in 1..Len(days_order) : days_order[k] = day

Displayed == pc \in {"ask_save", "save", "thanks", "done"} /\ full_schedule # <<>>

\* C7: the schedule displayed is the manual rows followed by the syllabus
\* rows; every row with a Day from Monday to Sunday is shown once, under its
\* day, no other row is shown, the days come in the order Monday to Sunday
\* and the rows of a day in the order of the schedule.
C7_DisplayGroupsByDay ==
    Displayed =>
        /\ full_schedule = task_df \o syllabus_df
        /\ \A k \in 1..Len(shown) :
              /\ shown[k].idx \in 1..Len(full_schedule)
              /\ shown[k].row = full_schedule[shown[k].idx]
              /\ shown[k].day = shown[k].row.Day
              /\ IsWeekday(shown[k].day)
        /\ \A i \in 1..Len(full_schedule) :
              Cardinality({k \in 1..Len(shown) : shown[k].idx = i})
                  = IF IsWeekday(full_schedule[i].Day) THEN 1 ELSE 0
        /\ \A k, l \in 1..Len(shown) :
              k < l =>
                  \/ DayIndex(shown[k].day) < DayIndex(shown[l].day)
                  \/ /\ shown[k].day = shown[l].day
                     /\ shown[k].idx < shown[l].idx

\* a manual row for Monday and one for no weekday, and syllabus rows of which
\* two fall on a Monday: the three Monday rows are shown first, the manual
\* one before the two others
C7_Witness ==
    /\ Displayed
    /\ Len(task_df) = 2
    /\ task_df[1].Day = "Monday"
    /\ task_df[2].Day = "Funday"
    /\ Len(shown) >= 3
    /\ shown[1].idx = 1
    /\ shown[2].idx > Len(task_df)
    /\ shown[3].idx > shown[2].idx
    /\ shown[3].day = "Monday"

\* the weekday of a date by Zeller's congruence: 0 is Saturday
Zeller(dt) ==
    LET m == IF dt.m < 3 THEN dt.m + 12 ELSE dt.m
        y == IF dt.m < 3 THEN dt.y - 1 ELSE dt.y
        k == y % 100
        j == y \div 100
    IN  (dt.d + ((13 * (m + 1)) \div 5) + k + (k \div 4) + (j \div 4) + 5 * j) % 7

ZellerName(dt) ==
    <<"Saturday", "Sunday", "Monday", "Tuesday", "Wednesday", "Thursday", "Friday">>
        [Zeller(dt) + 1]

\* desc reads: full month name, space, two digits, comma, space, four digits,
\* and these are the month, the day and the year of dt
ReadsAs(desc, dt) ==
    LET n == Len(desc)
        name == LowerSeq(SubSeq(desc, 1, n - 9))
    IN  /\ n > 9
        /\ name = Months[dt.m].stem \o Months[dt.m].rest
        /\ desc[1] \in DOMAIN FoldCase
        /\ desc[n - 8] = " "
        /\ AllDigits(desc, n - 7, n - 6)
        /\ Number(SubSeq(desc, n - 7, n - 6)) = dt.d
        /\ desc[n - 5] = ","
        /\ desc[n - 4] = " "
        /\ AllDigits(desc, n - 3, n)
        /\ Number(SubSeq(desc, n - 3, n)) = dt.y

\* C8: once main has left the loop with dates, the syllabus table has one row
\* for each date, in the order of the dates and with their duplicates; the
\* row's Task is "Syllabus Event", its Day the weekday of the date, its times
\* "N/A" and its Description the date written as month name, day and year.
C8_OneRowPerDate ==
    (dates # <<>> /\ pc \notin {"returned", "parse"}) =>
        /\ Len(syllabus_df) = Len(dates)
        /\ \A i \in 1..Len(dates) :
              /\ syllabus_df[i].Task = "Syllabus Event"
              /\ syllabus_df[i].Day = ZellerName(dates[i])
              /\ syllabus_df[i].Start = "N/A"
              /\ syllabus_df[i].End = "N/A"
              /\ ReadsAs(syllabus_df[i].Description, dates[i])

\* four dates, the last a duplicate of the first
C8_Witness ==
    /\ pc = "combine"
    /\ Len(dates) = 4
    /\ Len(syllabus_df) = 4
    /\ syllabus_df[1] = syllabus_df[4]
    /\ syllabus_df[1] # syllabus_df[2]

-----------------------------------------------------------------------------
(* C9, C10: the export and the syllabus loop.                              *)

InOut(msg) == \E k \in 1..Len(out) : out[k] = msg

\* save_schedule_to_csv was called and to_csv raised
SaveFailed == pc \in {"thanks", "done"} /\ csv.name # "" /\ ~csv.written

\* C9: when to_csv fails, the failure is printed, no exception leaves
\* save_schedule_to_csv, main runs to its closing message, and the schedule
\* and what was displayed of it are as they were.
C9_ExportFailureIsReported ==
    /\ pc # "raised"
    /\ SaveFailed =>
          /\ InOut("Error saving schedule")
          /\ ~InOut("Schedule saved")
          /\ full_schedule = CombineFrames(task_df, syllabus_df)
          /\ shown = display_schedule(full_schedule)
    /\ pc = "done" => out[Len(out)] = "Thanks"

\* the program has ended after a failed export
C9_Witness == pc = "done" /\ SaveFailed /\ shown # <<>>

InLoop(p) == p \in {"ask_path", "open", "read", "findall", "parse", "except",
                    "returned", "ask_retry"}

\* C10: in the syllabus loop, extract_dates_from_pdf is entered only with a
\* path that exists; a path that does not exist leads back to the path
\* prompt; an empty list of dates leads to the retry question; and the loop
\* is left only with dates or with an answer other than 'y'.
C10_SyllabusLoop ==
    [][ /\ (pc = "ask_path" /\ pc' = "open") => Exists(syllabus_path')
        /\ (pc = "ask_path" /\ pc' # "open") => pc' = "ask_path"
        /\ (pc = "ask_path" /\ attempts' # attempts /\ ~Exists(syllabus_path'))
              => (pc' = "ask_path" /\ out' = Append(out, "File not found"))
        /\ (pc # "ask_path" /\ pc' = "open") => FALSE
        /\ (pc = "returned" /\ dates = <<>> /\ pc' # pc) => pc' = "ask_retry"
        /\ (pc = "ask_retry" /\ pc' # pc) => pc' = (IF retry' = "y" THEN "ask_path" ELSE "combine")
        /\ (InLoop(pc) /\ ~InLoop(pc')) =>
              \/ pc = "returned" /\ dates # <<>>
              \/ pc = "ask_retry" /\ retry' # "y"
      ]_vars

\* the path prompt again, after an extraction without dates and the answer 'y'
C10_Witness == pc = "ask_path" /\ retry = "y" /\ attempts = 1 /\ dates = <<>>

=============================================================================
